---------------------------- MODULE Spec2Model ----------------------------
(***************************************************************************)
(* A model of the RCPSP scheduling engine: the serial schedule builder     *)
(* (src/src/sgs.py), the solution state and its objective                  *)
(* (src/src/state.py), the destroy / repair operators                      *)
(* (src/src/operators.py) and the search driver (src/src/solver.py).       *)
(*                                                                         *)
(* Python lists and arrays indexed by job id are functions over 0..n-1.    *)
(* Time-indexed matrices (cap_tm, used) are sequences of rows: period t    *)
(* is element t+1, and a row is a sequence over the resources 1..R.        *)
(***************************************************************************)
EXTENDS Integers, Sequences, FiniteSets, TLC

VARIABLES
    inst,     \* which problem instance the run was given
    data,     \* the shared ProblemData; data.cap_tm grows (sgs.py:70)
    pc,       \* position of the specification's driver
    sg,       \* locals of the running schedule_order call
    first,    \* what the first of two schedule_order calls returned
    curr,     \* search: current RcpspState
    best,     \* search: best RcpspState
    dest,     \* search: state returned by the destroy operator
    cand,     \* search: state returned by the repair operator
    ops,      \* search: the operator pair of the running iteration
    iters,    \* search: iterations completed
    run,      \* search: 1 for the first run, 2 for the run repeated with the same seed
    trace,    \* search: the random decisions of run 1, in order (the seed's stream)
    res1,     \* search: what run 1 returned
    summary,  \* search: the summary dictionary solve_with_alns returns
    obj,      \* objective: the inputs and the values of two objective() calls
    lrp,      \* initial order: a call of _topological_lrp_order and what it returned
    evaluated \* search: the objective values the running search has evaluated

vars == <<inst, data, pc, sg, first, curr, best, dest, cand, ops, iters, run, trace, res1,
          summary, obj, lrp, evaluated>>

-----------------------------------------------------------------------------
(* Bounds of the model *)

\* iteration budget of one search run (iters of solve_with_alns)
MaxIters == 2

\* start periods the placement scan of schedule_order tries before the model
\* reports the call as never returning
MaxT == 14

-----------------------------------------------------------------------------
(* Generic helpers *)

\* a Python list / numpy array given as a tuple: index j is element j+1
Z(seq) == [j \in 0..(Len(seq) - 1) |-> seq[j + 1]]

Range(seq) == {seq[i] : i \in 1..Len(seq)}

Max2(a, b) == IF a >= b THEN a ELSE b

Min2(a, b) == IF a <= b THEN a ELSE b

\* max(iterable, default=...) / ndarray.max(initial=...)
SetMax(S, default) ==
    IF S = {} THEN default ELSE CHOOSE y \in S : \A z \in S : y >= z

RECURSIVE Perms(_)
\* all sequences listing every element of S exactly once
Perms(S) ==
    IF S = {} THEN {<<>>}
    ELSE UNION {{<<x>> \o p : p \in Perms(S \ {x})} : x \in S}

RECURSIVE Ascending(_)
\* the elements of S as a list in ascending order
Ascending(S) ==
    IF S = {} THEN <<>>
    ELSE LET m == CHOOSE x \in S : \A y \in S : x <= y IN <<m>> \o Ascending(S \ {m})

\* position of job j in the list seq, 0 if absent
PosIn(seq, j) == IF j \in Range(seq) THEN CHOOSE i \in 1..Len(seq) : seq[i] = j ELSE 0

\* remaining.pop(idx): the list without its element at position i
RemoveAt(seq, i) == SubSeq(seq, 1, i - 1) \o SubSeq(seq, i + 1, Len(seq))

\* list.insert(pos, j) with 0 <= pos <= len: j ends at index pos
InsertAt(seq, pos, j) == SubSeq(seq, 1, pos) \o <<j>> \o SubSeq(seq, pos + 1, Len(seq))

-----------------------------------------------------------------------------
(* Problem instances: ProblemData, src/src/data.py *)

\* succs[p].append(i) for i ascending: the successors of p in ascending order
RECURSIVE SuccList(_, _, _)
SuccList(preds, p, i) ==
    IF i >= Len(preds) THEN <<>>
    ELSE (IF p \in Range(preds[i + 1]) THEN <<i>> ELSE <<>>) \o SuccList(preds, p, i + 1)

ProblemData(durations, preds, needs, cap_tm) ==
    [durations    |-> Z(durations),
     predecessors |-> Z(preds),
     successors   |-> [p \in 0..(Len(preds) - 1) |-> SuccList(preds, p, 0)],
     needs        |-> Z(needs),
     cap_tm       |-> cap_tm]

\* dummy source 0 and sink 4; A, B, C each need the one unit of the only
\* resource; the horizon covers the sum of the durations (data.py:145-152)
InstSerial ==
    ProblemData(<<0, 2, 3, 1, 0>>,
                <<<<>>, <<0>>, <<0>>, <<0>>, <<1, 2, 3>>>>,
                <<<<0>>, <<1>>, <<1>>, <<1>>, <<0>>>>,
                <<<<1>>, <<1>>, <<1>>, <<1>>, <<1>>, <<1>>, <<1>>>>)

\* two resources, capacities that vary over a short horizon, a chain 1 -> 3
InstVarying ==
    ProblemData(<<0, 2, 1, 2, 0>>,
                <<<<>>, <<0>>, <<0>>, <<1>>, <<2, 3>>>>,
                <<<<0, 0>>, <<1, 0>>, <<1, 1>>, <<0, 1>>, <<0, 0>>>>,
                <<<<1, 0>>, <<2, 1>>, <<1, 1>>>>)

\* capacity drops at the end of the known horizon: jobs 1 and 2 both need 2
\* units, the last known row offers 1
InstDrop ==
    ProblemData(<<0, 2, 1, 0>>,
                <<<<>>, <<0>>, <<0>>, <<1, 2>>>>,
                <<<<0>>, <<2>>, <<2>>, <<0>>>>,
                <<<<2>>, <<2>>, <<1>>>>)

\* a one-row horizon, parallel jobs with unequal demands, 2 -> 3
InstShort ==
    ProblemData(<<0, 2, 2, 2, 0>>,
                <<<<>>, <<0>>, <<0>>, <<2>>, <<1, 3>>>>,
                <<<<0>>, <<2>>, <<1>>, <<2>>, <<0>>>>,
                <<<<3>>>>)

\* capacity rises over the horizon; a zero-duration job in the middle, listed
\* with a demand no period can meet
InstRising ==
    ProblemData(<<0, 3, 0, 1, 2, 0>>,
                <<<<>>, <<0>>, <<1>>, <<0>>, <<2, 3>>, <<4>>>>,
                <<<<0>>, <<1>>, <<4>>, <<2>>, <<2>>, <<0>>>>,
                <<<<1>>, <<1>>, <<3>>, <<2>>>>)

\* a one-row horizon on which the initial order is not the best one
InstGreedy ==
    ProblemData(<<0, 2, 1, 3, 0>>,
                <<<<>>, <<0>>, <<0>>, <<2>>, <<1, 3>>>>,
                <<<<0>>, <<1>>, <<1>>, <<2>>, <<0>>>>,
                <<<<2>>>>)

\* a precedence cycle 1 -> 2 -> 1 behind the source: the loader does not
\* look for cycles (data.py:109-123)
InstCycle ==
    ProblemData(<<0, 1, 2, 0>>,
                <<<<>>, <<0, 2>>, <<1>>, <<2>>>>,
                <<<<0>>, <<1>>, <<1>>, <<0>>>>,
                <<<<1>>, <<1>>, <<1>>, <<1>>>>)

\* job 1 needs 3 units of a resource that never offers more than 2
InstOver ==
    ProblemData(<<0, 2, 1, 0>>,
                <<<<>>, <<0>>, <<0>>, <<1, 2>>>>,
                <<<<0>>, <<3>>, <<1>>, <<0>>>>,
                <<<<2>>, <<2>>, <<1>>, <<2>>>>)

\* a zero-duration first job and a last job that is a real one: has_dummies
\* (data.py:30-53) takes the file as it is and no sink is added
InstNoSink ==
    ProblemData(<<0, 2, 1>>,
                <<<<>>, <<0>>, <<0>>>>,
                <<<<0>>, <<1>>, <<1>>>>,
                <<<<1>>, <<1>>, <<1>>, <<1>>>>)

\* capacity that falls after the first period and never below a job's demand
InstFalling ==
    ProblemData(<<0, 2, 2, 0>>,
                <<<<>>, <<0>>, <<0>>, <<1, 2>>>>,
                <<<<0>>, <<2>>, <<1>>, <<0>>>>,
                <<<<3>>, <<2>>, <<2>>>>)

Instances ==
    <<InstSerial, InstVarying, InstDrop, InstShort, InstRising, InstGreedy,
      InstCycle, InstOver, InstNoSink, InstFalling>>

NJobs(d) == Cardinality(DOMAIN d.durations)

Jobs(d) == DOMAIN d.durations

NRes(d) == Len(d.cap_tm[1])

\* every sequence of distinct job ids: full orders and the partial orders a
\* destroy step leaves
AllOrders(d) == UNION {Perms(S) : S \in SUBSET Jobs(d)}

-----------------------------------------------------------------------------
(* Schedule builder: schedule_order, src/src/sgs.py *)

\* np.zeros_like(rows): as many rows, all zero
ZeroRows(rows) == [t \in 1..Len(rows) |-> [r \in 1..Len(rows[t]) |-> 0]]

\* sgs.py:29-38: the locals of a call before its first placement
SgsEnter(order, d) ==
    [order        |-> order,
     remaining    |-> order,
     present      |-> Range(order),
     start_times  |-> [j \in Jobs(d) |-> -1],
     finish_times |-> [j \in Jobs(d) |-> -1],
     used         |-> ZeroRows(d.cap_tm),
     scheduled    |-> [j \in Jobs(d) |-> FALSE],
     cap_tm       |-> d.cap_tm,
     status       |-> "run",
     makespan     |-> 0]

\* the bug of waiting for every predecessor, in the order or not
PredsAll(d, j, present) == d.predecessors[j]

\* sgs.py:43: the predecessors of j that are present in the order
PredsPresent(d, j, present) == SelectSeq(d.predecessors[j], LAMBDA p : p \in present)

\* sgs.py:44: all(scheduled[p] for p in preds_present)
AllScheduled(d, j, present, scheduled) ==
    \A p \in Range(PredsPresent(d, j, present)) : scheduled[p]

\* the bug of a scan that trusts the order: only the head of the list is tried
ScanEligibleHead(d, remaining, present, scheduled, i) ==
    IF i > Len(remaining) THEN 0
    ELSE IF AllScheduled(d, remaining[i], present, scheduled) THEN i
    ELSE 0

RECURSIVE ScanEligibleLast(_, _, _, _, _)
\* the bug of a scan without its break: the last eligible position wins
ScanEligibleLast(d, remaining, present, scheduled, i) ==
    IF i > Len(remaining) THEN 0
    ELSE LET later == ScanEligibleLast(d, remaining, present, scheduled, i + 1)
         IN  IF later # 0 THEN later
             ELSE IF AllScheduled(d, remaining[i], present, scheduled) THEN i
             ELSE 0

RECURSIVE ScanEligible(_, _, _, _, _)
\* sgs.py:41-46: the for loop over enumerate(remaining) from position i on;
\* 0 stands for idx = None
ScanEligible(d, remaining, present, scheduled, i) ==
    IF i > Len(remaining) THEN 0
    ELSE IF AllScheduled(d, remaining[i], present, scheduled) THEN i
    ELSE ScanEligible(d, remaining, present, scheduled, i + 1)

\* the bug of taking the predecessors' start times for their finish times
EarliestStartFromStarts(d, j, present, finish_times) ==
    LET est == SetMax({finish_times[p] - d.durations[p] :
                          p \in Range(PredsPresent(d, j, present))}, 0)
    IN  IF est < 0 THEN 0 ELSE est

\* sgs.py:52-55
EarliestStart(d, j, present, finish_times) ==
    LET est == SetMax({finish_times[p] : p \in Range(PredsPresent(d, j, present))}, 0)
    IN  IF est < 0 THEN 0 ELSE est

\* the bug of stacking the pad in front: np.vstack([pad, rows])
ExtendCapInFront(cap_tm, extra) == [i \in 1..extra |-> cap_tm[Len(cap_tm)]] \o cap_tm

\* sgs.py:68-71: np.vstack([rows, np.repeat(rows[-1:], extra)])
ExtendCap(cap_tm, extra) == cap_tm \o [i \in 1..extra |-> cap_tm[Len(cap_tm)]]

\* the bug of padding the usage as the capacity is padded, with its last row
ExtendUsedRepeated(used, extra) == used \o [i \in 1..extra |-> used[Len(used)]]

\* sgs.py:71: np.vstack([used, np.zeros_like(pad)])
ExtendUsed(used, extra) == used \o [i \in 1..extra |-> [r \in 1..Len(used[1]) |-> 0]]

\* the bug of testing the first period of the window only
FeasibleAtStart(used, cap_tm, req, t, dur) ==
    ~(\E r \in 1..Len(req) : used[t + 1][r] + req[r] > cap_tm[t + 1][r])

\* sgs.py:74-78: no period of [t, t+dur) where usage plus demand exceeds capacity
Feasible(used, cap_tm, req, t, dur) ==
    \A tau \in t..(t + dur - 1) :
        ~(\E r \in 1..Len(req) : used[tau + 1][r] + req[r] > cap_tm[tau + 1][r])

\* the bug of booking the first period of the window only: used[t] += req
AddUsageFirstPeriod(used, req, t, dur) ==
    [i \in 1..Len(used) |->
        IF i = t + 1
        THEN [r \in 1..Len(req) |-> used[i][r] + req[r]]
        ELSE used[i]]

\* sgs.py:80: used[t:t+dur] += req
AddUsage(used, req, t, dur) ==
    [i \in 1..Len(used) |->
        IF t + 1 <= i /\ i <= t + dur
        THEN [r \in 1..Len(req) |-> used[i][r] + req[r]]
        ELSE used[i]]

RECURSIVE PlaceScanTrustPad(_, _, _, _, _)
\* the bug of taking the padded periods for free ones: a start whose window
\* leaves the known horizon is accepted unchecked
PlaceScanTrustPad(used, cap_tm, req, t, dur) ==
    LET T     == Len(cap_tm)
        extra == IF t + dur > T THEN t + dur - T ELSE 0
        cap1  == IF extra > 0 THEN ExtendCap(cap_tm, extra) ELSE cap_tm
        used1 == IF extra > 0 THEN ExtendUsed(used, extra) ELSE used
    IN  IF extra > 0 \/ Feasible(used1, cap1, req, t, dur)
        THEN [found |-> TRUE, t |-> t, used |-> AddUsage(used1, req, t, dur), cap_tm |-> cap1]
        ELSE IF t >= MaxT
        THEN [found |-> FALSE, t |-> t, used |-> used1, cap_tm |-> cap1]
        ELSE PlaceScanTrustPad(used1, cap1, req, t + 1, dur)

RECURSIVE PlaceScanStride(_, _, _, _, _)
\* the bug of moving on by the job's duration after a start that does not
\* fit: t += d
PlaceScanStride(used, cap_tm, req, t, dur) ==
    LET T     == Len(cap_tm)
        extra == IF t + dur > T THEN t + dur - T ELSE 0
        cap1  == IF extra > 0 THEN ExtendCap(cap_tm, extra) ELSE cap_tm
        used1 == IF extra > 0 THEN ExtendUsed(used, extra) ELSE used
    IN  IF Feasible(used1, cap1, req, t, dur)
        THEN [found |-> TRUE, t |-> t, used |-> AddUsage(used1, req, t, dur), cap_tm |-> cap1]
        ELSE IF t >= MaxT
        THEN [found |-> FALSE, t |-> t, used |-> used1, cap_tm |-> cap1]
        ELSE PlaceScanStride(used1, cap1, req, t + dur, dur)

RECURSIVE PlaceScan(_, _, _, _, _)
\* sgs.py:66-85: the while True loop from start period t on. The loop has no
\* exit but a feasible start; a scan that passes MaxT is reported as
\* found = FALSE, the call that never returns.
PlaceScan(used, cap_tm, req, t, dur) ==
    LET T     == Len(cap_tm)
        extra == IF t + dur > T THEN t + dur - T ELSE 0
        cap1  == IF extra > 0 THEN ExtendCap(cap_tm, extra) ELSE cap_tm
        used1 == IF extra > 0 THEN ExtendUsed(used, extra) ELSE used
    IN  IF Feasible(used1, cap1, req, t, dur)
        THEN [found |-> TRUE, t |-> t, used |-> AddUsage(used1, req, t, dur), cap_tm |-> cap1]
        ELSE IF t >= MaxT
        THEN [found |-> FALSE, t |-> t, used |-> used1, cap_tm |-> cap1]
        ELSE PlaceScan(used1, cap1, req, t + 1, dur)

\* sgs.py:50-85: pop position idx of remaining and place that job
PlaceJob(d, s, idx) ==
    LET j   == s.remaining[idx]
        rem == RemoveAt(s.remaining, idx)
        est == EarliestStart(d, j, s.present, s.finish_times)
        dur == d.durations[j]
    IN  IF dur = 0
        THEN [s EXCEPT !.remaining = rem,
                       !.start_times[j] = est,
                       !.finish_times[j] = est,
                       !.scheduled[j] = TRUE]
        ELSE LET p == PlaceScan(s.used, s.cap_tm, d.needs[j], est, dur)
             IN  IF p.found
                 THEN [s EXCEPT !.remaining = rem,
                                !.used = p.used,
                                !.cap_tm = p.cap_tm,
                                !.start_times[j] = p.t,
                                !.finish_times[j] = p.t + dur,
                                !.scheduled[j] = TRUE]
                 ELSE [s EXCEPT !.remaining = rem,
                                !.used = p.used,
                                !.cap_tm = p.cap_tm,
                                !.status = "hang"]

\* the bug of returning the usage matrix with all the rows it was given or
\* has grown to: return start_times, used
SgsBodyUncropped(d, s) ==
    IF s.remaining = <<>>
    THEN LET makespan == SetMax({s.finish_times[j] : j \in Jobs(d)} \cup {0}, 0)
         IN  [s EXCEPT !.status = "ok", !.makespan = makespan]
    ELSE LET idx == ScanEligible(d, s.remaining, s.present, s.scheduled, 1)
         IN  IF idx = 0
             THEN [s EXCEPT !.status = "error"]
             ELSE PlaceJob(d, s, idx)

\* sgs.py:40-89: one pass of the outer while loop, or the return when
\* remaining is empty
SgsBody(d, s) ==
    IF s.remaining = <<>>
    THEN LET makespan == SetMax({s.finish_times[j] : j \in Jobs(d)} \cup {0}, 0)
         IN  [s EXCEPT !.status = "ok",
                       !.makespan = makespan,
                       !.used = SubSeq(s.used, 1, makespan)]
    ELSE LET idx == ScanEligible(d, s.remaining, s.present, s.scheduled, 1)
         IN  IF idx = 0
             THEN [s EXCEPT !.status = "error"]
             ELSE PlaceJob(d, s, idx)

RECURSIVE SgsRun(_, _)
SgsRun(d, s) == IF s.status # "run" THEN s ELSE SgsRun(d, SgsBody(d, s))

\* schedule_order(order, data): status "ok" with start_times and the cropped
\* usage matrix, "error" for the RuntimeError of sgs.py:48, "hang" for a call
\* that never returns; cap_tm is data.cap_tm as the call leaves it
schedule_order(order, d) == SgsRun(d, SgsEnter(order, d))

-----------------------------------------------------------------------------
(* Solution state and objective: RcpspState, src/src/state.py *)

\* objective() returns a float and the penalty 1e12 is past the 32-bit
\* integers of the model checker: a value v is the pair <<v \div Base,
\* v % Base>>, exact for every integer the model meets
Base == 10^6

W(v) == <<v \div Base, v % Base>>

WAdd(a, b) == <<a[1] + b[1] + ((a[2] + b[2]) \div Base), (a[2] + b[2]) % Base>>

WLess(a, b) == a[1] < b[1] \/ (a[1] = b[1] /\ a[2] < b[2])

WLeq(a, b) == a = b \/ WLess(a, b)

WVec(f) == [j \in DOMAIN f |-> W(f[j])]

\* ndarray.max(initial=0) over wide values
WSetMax(S) ==
    IF S = {} THEN W(0) ELSE CHOOSE y \in S \cup {W(0)} : \A z \in S \cup {W(0)} : WLeq(z, y)

\* state.py:47: 1e12
Penalty == <<Base, 0>>

\* the bug of counting every job without a start, zero durations included
objectiveCountAll(starts, dur) ==
    LET mask == {j \in DOMAIN dur : WLess(starts[j], W(0))}
    IN  IF mask # {}
        THEN WAdd(Penalty, W(Cardinality(mask)))
        ELSE WSetMax({WAdd(starts[j], dur[j]) : j \in DOMAIN dur})

\* state.py:34-49: RcpspState.objective for start times and durations given
\* as wide values
objective(starts, dur) ==
    LET mask == {j \in DOMAIN dur : WLess(W(0), dur[j]) /\ WLess(starts[j], W(0))}
    IN  IF mask # {}
        THEN WAdd(Penalty, W(Cardinality(mask)))
        ELSE WSetMax({WAdd(starts[j], dur[j]) : j \in DOMAIN dur})

\* state.py:17-26: RcpspState(order, data) builds its schedule at once. The
\* result pairs the new state with data.cap_tm as the build leaves it; the
\* state's status is that of the schedule_order call.
RcpspState(order, d) ==
    LET r == schedule_order(order, d)
    IN  [state  |-> [status |-> r.status, order |-> order,
                     starts |-> r.start_times, used |-> r.used],
         cap_tm |-> r.cap_tm]

\* the bug of answering with a state of no jobs in place of the one given
SameEmptied(state, d) ==
    [state |-> [state EXCEPT !.order = <<>>,
                             !.starts = [j \in DOMAIN state.starts |-> -1],
                             !.used = <<>>],
     cap_tm |-> d.cap_tm]

\* an operator that returns the state it was given
Same(state, d) == [state |-> state, cap_tm |-> d.cap_tm]

\* the data with cap_tm as an earlier call left it
WithCap(d, cap_tm) == [d EXCEPT !.cap_tm = cap_tm]

\* state.objective() of a state of the search
StateObjective(state, d) == objective(WVec(state.starts), WVec(d.durations))

-----------------------------------------------------------------------------
(* Neighbourhood operators: src/src/operators.py *)

\* solver.py:86-87: frac = 0.2 = FracNum / FracDen
FracNum == 1

FracDen == 5

\* the fraction the solver gives both destroy operators
Frac == <<FracNum, FracDen>>

\* operators.py:27 and 68: max(1, int(frac * n)) for frac = frac[1] / frac[2]
RemovalCountOf(frac, n) == Max2(1, (frac[1] * n) \div frac[2])

\* the same with the solver's fraction
RemovalCount(n) == RemovalCountOf(Frac, n)

\* the bug of rebuilding the list from a set: survivors in ascending id order
KeepSorted(order, removed) == Ascending(Range(order) \ removed)

\* operators.py:31 and 71: [j for j in state.order if j not in removed]
Keep(order, removed) == SelectSeq(order, LAMBDA j : j \notin removed)

\* operators.py:30: what rng_.choice(order, size=k, replace=False) can return,
\* as a set
Choices(order, k) == {S \in SUBSET Range(order) : Cardinality(S) = k}

\* operators.py:22-32: random_removal's destroy, removed being the sample drawn
random_removal(state, d, removed) ==
    IF Len(state.order) = 0 THEN Same(state, d)
    ELSE RcpspState(Keep(state.order, removed), d)

RECURSIVE SetProduct(_)
SetProduct(S) ==
    IF S = {} THEN 1 ELSE LET x == CHOOSE y \in S : TRUE IN x * SetProduct(S \ {x})

\* a common multiple of every np.maximum(cap, 1) of the capacity array
CapMultiple(cap_tm) ==
    SetProduct({Max2(cap_tm[t][r], 1) : t \in 1..Len(cap_tm), r \in 1..Len(cap_tm[1])})

RECURSIVE SumOver(_, _)
\* the sum of f over its domain restricted to S
SumOver(f, S) ==
    IF S = {} THEN 0 ELSE LET x == CHOOSE y \in S : TRUE IN f[x] + SumOver(f, S \ {x})

\* operators.py:56-65: the score of job j, the mean of used / max(cap, 1)
\* over the job's window and the resources, as the exact fraction
\* <<numerator, denominator>>. The usage matrix has makespan rows, so the
\* window test of line 63 holds for every scheduled job.
Score(d, starts, used, j) ==
    LET dur == d.durations[j]
        s   == starts[j]
        L   == CapMultiple(d.cap_tm)
        R   == Len(d.cap_tm[1])
        win == (s + 1)..(s + dur)
        term == [c \in win \X (1..R) |->
                    used[c[1]][c[2]] * (L \div Max2(d.cap_tm[c[1]][c[2]], 1))]
    IN  IF dur <= 0 \/ s < 0 THEN <<0, 1>>
        ELSE <<SumOver(term, win \X (1..R)), L * dur * R>>

FracLess(a, b) == a[1] * b[2] < b[1] * a[2]

RECURSIVE RankAscending(_, _)
\* operators.py:67: scores.sort(key=score), a stable sort of the jobs listed
\* by id: ascending score, equal scores in ascending id
RankAscending(sc, S) ==
    IF S = {} THEN <<>>
    ELSE LET j == CHOOSE x \in S : \A y \in S :
                      \/ FracLess(sc[x], sc[y])
                      \/ (~FracLess(sc[y], sc[x]) /\ x <= y)
         IN  <<j>> \o RankAscending(sc, S \ {j})

\* what a call does when its own schedule_order call does not return
Propagate(state, r) ==
    [state |-> [state EXCEPT !.status = r.status], cap_tm |-> r.cap_tm]

\* operators.py:47-72: non_peak_removal's destroy
non_peak_removal(state, d, frac) ==
    IF Len(state.order) = 0 THEN Same(state, d)
    ELSE LET r == schedule_order(state.order, d)
         IN  IF r.status # "ok" THEN Propagate(state, r)
             ELSE LET d1     == WithCap(d, r.cap_tm)
                      sc     == [j \in Jobs(d) |-> Score(d1, r.start_times, r.used, j)]
                      ranked == RankAscending(sc, Jobs(d))
                      k      == Min2(RemovalCountOf(frac, Len(state.order)), Len(ranked))
                      to_remove == {ranked[i] : i \in 1..k}
                  IN  RcpspState(Keep(state.order, to_remove), d1)

RECURSIVE InsertAll(_, _, _)
\* operators.py:90-92: each removed job inserted at its drawn position
InsertAll(order, removed, positions) ==
    IF removed = <<>> THEN order
    ELSE InsertAll(InsertAt(order, positions[1], removed[1]),
                   Tail(removed), Tail(positions))

\* operators.py:86-93: random_insert's repair; removed = <<>> stands for the
\* default None as well as for an empty collection
random_insert(state, d, removed, positions) ==
    IF removed = <<>> THEN Same(state, d)
    ELSE RcpspState(InsertAll(state.order, removed, positions), d)

RECURSIVE SortDescending(_, _)
\* operators.py:111: sorted(range(m), key=key, reverse=True), stable: larger
\* key first, equal keys in ascending position
SortDescending(key, S) ==
    IF S = {} THEN <<>>
    ELSE LET KeyLess(a, b) == a[1] < b[1] \/ (a[1] = b[1] /\ a[2] < b[2])
             j == CHOOSE x \in S : \A y \in S :
                      \/ KeyLess(key[y], key[x])
                      \/ (key[x] = key[y] /\ x <= y)
         IN  <<j>> \o SortDescending(key, S \ {j})

\* operators.py:97-113: justify. The sort key of list position j reads
\* finish[j] and starts[j], the arrays indexed by job id (line 111).
justify(state, d) ==
    LET r == schedule_order(state.order, d)
    IN  IF r.status # "ok" THEN Propagate(state, r)
        ELSE LET m       == Len(state.order)
                 finish  == [j \in Jobs(d) |-> r.start_times[j] + d.durations[j]]
                 key     == [j \in 0..(m - 1) |-> <<finish[j], r.start_times[j]>>]
                 perm    == SortDescending(key, 0..(m - 1))
                 order_r == [i \in 1..m |-> state.order[perm[i] + 1]]
             IN  RcpspState(order_r, WithCap(d, r.cap_tm))

-----------------------------------------------------------------------------
(* Initial order: _topological_lrp_order, src/src/solver.py *)

RECURSIVE Release(_, _, _, _)
\* solver.py:28-31 and 49-52: each successor loses one in-degree and is
\* appended to the list when it reaches zero
Release(succ, i, indeg, q) ==
    IF i > Len(succ) THEN [indeg |-> indeg, q |-> q]
    ELSE LET v  == succ[i]
             nd == indeg[v] - 1
         IN  Release(succ, i + 1, [indeg EXCEPT ![v] = nd],
                     IF nd = 0 THEN Append(q, v) ELSE q)

RECURSIVE KahnTopo(_, _, _, _)
\* solver.py:22-31: the queue-driven topological order
KahnTopo(d, q, idx, indeg) ==
    IF idx > Len(q) THEN q
    ELSE LET rel == Release(d.successors[q[idx]], 1, indeg, q)
         IN  KahnTopo(d, rel.q, idx + 1, rel.indeg)

RECURSIVE TailDP(_, _, _, _)
\* solver.py:33-37: tails over the reversed topological order
TailDP(d, topo, i, tail) ==
    IF i = 0 THEN tail
    ELSE LET u == topo[i]
             t == IF d.successors[u] # <<>>
                  THEN d.durations[u]
                       + SetMax({tail[v] : v \in Range(d.successors[u])}, 0)
                  ELSE d.durations[u]
         IN  TailDP(d, topo, i - 1, [tail EXCEPT ![u] = t])

RECURSIVE LrpLoopLargestId(_, _, _, _, _)
\* the bug of breaking ties by the larger id: key=lambda x: (tail[x], x)
LrpLoopLargestId(d, tail, ready, indeg, order) ==
    IF ready = <<>> THEN order
    ELSE LET j   == CHOOSE x \in Range(ready) : \A y \in Range(ready) :
                        tail[x] > tail[y] \/ (tail[x] = tail[y] /\ x >= y)
             rel == Release(d.successors[j], 1, indeg, RemoveAt(ready, PosIn(ready, j)))
         IN  LrpLoopLargestId(d, tail, rel.q, rel.indeg, Append(order, j))

RECURSIVE LrpLoop(_, _, _, _, _)
\* solver.py:44-52: the ready job of largest tail, smallest id on ties
LrpLoop(d, tail, ready, indeg, order) ==
    IF ready = <<>> THEN order
    ELSE LET j   == CHOOSE x \in Range(ready) : \A y \in Range(ready) :
                        tail[x] > tail[y] \/ (tail[x] = tail[y] /\ x <= y)
             rel == Release(d.successors[j], 1, indeg, RemoveAt(ready, PosIn(ready, j)))
         IN  LrpLoop(d, tail, rel.q, rel.indeg, Append(order, j))

\* solver.py:15-53
TopologicalLrpOrder(d) ==
    LET indeg == [j \in Jobs(d) |-> Len(d.predecessors[j])]
        roots == Ascending({j \in Jobs(d) : indeg[j] = 0})
        topo  == KahnTopo(d, roots, 1, indeg)
        tail  == TailDP(d, topo, Len(topo), [j \in Jobs(d) |-> 0])
    IN  LrpLoop(d, tail, roots, indeg, <<>>)

-----------------------------------------------------------------------------
(* Placeholders for the variables a specification does not use *)

NoCall == [status |-> "none"]

NoState == [status |-> "none", order |-> <<>>]

NoOps == [d |-> "none", r |-> "none"]

NoObj == [pc |-> "none"]

NoSummary == [makespan |-> -1]

-----------------------------------------------------------------------------
(* SpecSGS: schedule_order called on one order, one pass of its outer loop *)
(* per step, then called again with the same order on the same data        *)

InitSGS ==
    /\ inst \in 1..Len(Instances)
    /\ data = Instances[inst]
    /\ pc = "sgs"
    /\ \E order \in AllOrders(Instances[inst]) : sg = SgsEnter(order, Instances[inst])
    /\ first = NoCall
    /\ curr = NoState /\ best = NoState /\ dest = NoState /\ cand = NoState
    /\ ops = NoOps /\ iters = 0 /\ run = 0 /\ trace = <<>> /\ res1 = NoState
    /\ summary = NoSummary
    /\ obj = NoObj
    /\ lrp = NoCall
    /\ evaluated = {}

searchVars == <<curr, best, dest, cand, ops, iters, run, trace, res1, summary>>

\* sgs.py:40-89, one pass; the extension of line 70 is written to the shared data
SgsStep ==
    /\ pc = "sgs"
    /\ sg.status = "run"
    /\ sg' = SgsBody(data, sg)
    /\ data' = [data EXCEPT !.cap_tm = sg'.cap_tm]
    /\ UNCHANGED <<inst, pc, first, searchVars, obj, lrp, evaluated>>

\* a second schedule_order(order, data) once the first has returned
SgsAgain ==
    /\ pc = "sgs"
    /\ sg.status = "ok"
    /\ first = NoCall
    /\ first' = sg
    /\ sg' = SgsEnter(sg.order, data)
    /\ UNCHANGED <<inst, data, pc, searchVars, obj, lrp, evaluated>>

NextSGS == SgsStep \/ SgsAgain

SpecSGS == InitSGS /\ [][NextSGS]_vars

-----------------------------------------------------------------------------
(* Properties of the schedule builder *)

IsFullOrder(order, d) == Len(order) = NJobs(d) /\ Range(order) = Jobs(d)

\* every job exactly once, each after all of its predecessors
IsTopological(order, d) ==
    /\ IsFullOrder(order, d)
    /\ \A i \in 1..Len(order) : \A p \in Range(d.predecessors[order[i]]) :
           \E k \in 1..(i - 1) : order[k] = p

\* the capacity of period t as the problem gives it: rows past the known
\* horizon equal the last known row
CapAt(t, r) ==
    LET c0 == Instances[inst].cap_tm IN c0[Min2(t + 1, Len(c0))][r]

\* the jobs of a schedule that occupy period t
Occupying(d, order, starts, t) ==
    {j \in Range(order) :
        d.durations[j] > 0 /\ starts[j] >= 0
        /\ starts[j] <= t /\ t < starts[j] + d.durations[j]}

RECURSIVE SumNeeds(_, _, _)
SumNeeds(d, S, r) ==
    IF S = {} THEN 0
    ELSE LET j == CHOOSE x \in S : TRUE IN d.needs[j][r] + SumNeeds(d, S \ {j}, r)

Returned == pc = "sgs" /\ sg.status = "ok"

\* C1: for every order that is a valid topological order over the full job
\* set, the schedule schedule_order returns has start[s] >= start[p] +
\* duration[p] for every precedence edge p -> s.
C1_Precedence ==
    (Returned /\ IsTopological(sg.order, data)) =>
        \A s \in Jobs(data) : \A p \in Range(data.predecessors[s]) :
            sg.start_times[s] >= sg.start_times[p] + data.durations[p]

\* a returned schedule of a topological order in which a job with a
\* positive-duration predecessor starts later than period 0
C1_Witness ==
    /\ Returned /\ IsTopological(sg.order, data)
    /\ \E s \in Jobs(data) : \E p \in Range(data.predecessors[s]) :
           /\ data.durations[p] > 0 /\ data.durations[s] > 0
           /\ sg.start_times[s] >= sg.start_times[p] + data.durations[p]

\* C2: in every full schedule schedule_order returns, for every resource r and
\* every period t inside a scheduled job's window [start, start + duration),
\* the summed demand of the jobs occupying t is at most capacity[t][r], rows
\* past the known horizon being equal to the last known row.
C2_Capacity ==
    (Returned /\ IsFullOrder(sg.order, data)) =>
        \A j \in Jobs(data) :
            \A t \in sg.start_times[j]..(sg.start_times[j] + data.durations[j] - 1) :
                \A r \in 1..NRes(data) :
                    SumNeeds(data, Occupying(data, sg.order, sg.start_times, t), r)
                        <= CapAt(t, r)

\* a returned full schedule with a period, past the known horizon, that two
\* jobs occupy together and fill to its capacity
C2_Witness ==
    /\ Returned /\ IsFullOrder(sg.order, data)
    /\ \E t \in Len(Instances[inst].cap_tm)..MaxT : \E r \in 1..NRes(data) :
           LET occ == Occupying(data, sg.order, sg.start_times, t)
           IN  /\ Cardinality(occ) >= 2
               /\ SumNeeds(data, occ, r) = CapAt(t, r)
               /\ CapAt(t, r) > 0

\* C6: schedule_order invoked twice in a row with the same order on the same
\* shared data returns both times, with identical start times and an identical
\* usage matrix, also when the first call extended data.cap_tm.
C6_Idempotent ==
    (pc = "sgs" /\ first.status = "ok" /\ sg.status # "run") =>
        /\ sg.status = "ok"
        /\ sg.start_times = first.start_times
        /\ sg.used = first.used

\* the second call has returned and the first one had extended the capacity
\* array past the known horizon
C6_Witness ==
    /\ pc = "sgs" /\ first.status = "ok" /\ sg.status = "ok"
    /\ Len(first.cap_tm) > Len(Instances[inst].cap_tm)
    /\ sg.makespan > Len(Instances[inst].cap_tm)

\* C10: at every placement step the job schedule_order takes out of the
\* remaining list has all of its present predecessors scheduled, and no job
\* at an earlier position of the list has.
C10_EarliestEligible ==
    [][(pc = "sgs" /\ sg.status = "run" /\ Len(sg'.remaining) < Len(sg.remaining)) =>
          \E i \in 1..Len(sg.remaining) :
              /\ sg'.remaining = RemoveAt(sg.remaining, i)
              /\ \A p \in Range(data.predecessors[sg.remaining[i]]) :
                     p \in sg.present => sg.scheduled[p]
              /\ \A k \in 1..(i - 1) :
                     \E p \in Range(data.predecessors[sg.remaining[k]]) :
                         p \in sg.present /\ ~sg.scheduled[p]]_vars

\* a call in which a job has been placed while a job listed before it, and
\* one listed after it, still wait
C10_Witness ==
    /\ pc = "sgs" /\ sg.status = "run"
    /\ \E i, k, m \in 1..Len(sg.order) :
           /\ i < k /\ k < m
           /\ sg.order[i] \in Range(sg.remaining)
           /\ sg.scheduled[sg.order[k]]
           /\ sg.order[m] \in Range(sg.remaining)

-----------------------------------------------------------------------------
(* SpecObj: objective() of two states over the same jobs *)

\* a duration past the penalty: 2 * 10^12 periods
HugeDuration == <<2 * Base, 0>>

ObjJobs == 0..2

ObjDurations == {W(0), W(2), HugeDuration}

\* -1 is the start of a job the builder did not place (sgs.py:32)
ObjStarts == {W(-1), W(0), W(2)}

InitObj ==
    /\ inst = 0 /\ data = NoState /\ pc = "obj" /\ sg = NoCall /\ first = NoCall
    /\ curr = NoState /\ best = NoState /\ dest = NoState /\ cand = NoState
    /\ ops = NoOps /\ iters = 0 /\ run = 0 /\ trace = <<>> /\ res1 = NoState
    /\ summary = NoSummary
    /\ lrp = NoCall
    /\ evaluated = {}
    /\ \E dur \in [ObjJobs -> ObjDurations], a \in [ObjJobs -> ObjStarts],
          b \in [ObjJobs -> ObjStarts] :
           obj = [pc |-> "in", dur |-> dur, a |-> a, b |-> b, va |-> W(0), vb |-> W(0)]

\* state.py:34-49 on both states
ObjEval ==
    /\ pc = "obj" /\ obj.pc = "in"
    /\ obj' = [obj EXCEPT !.pc = "out",
                          !.va = objective(obj.a, obj.dur),
                          !.vb = objective(obj.b, obj.dur)]
    /\ UNCHANGED <<inst, data, pc, sg, first, searchVars, lrp, evaluated>>

NextObj == ObjEval

SpecObj == InitObj /\ [][NextObj]_vars

\* the positive-duration jobs without a start
Stranded(starts, dur) ==
    {j \in DOMAIN dur : WLess(W(0), dur[j]) /\ WLess(starts[j], W(0))}

\* the jobs without a start
Unscheduled(starts) == {j \in DOMAIN starts : WLess(starts[j], W(0))}

Evaluated == pc = "obj" /\ obj.pc = "out"

\* C8: of two states over the same job set, one with every job scheduled
\* (makespan M) and one with at least one unscheduled positive-duration job,
\* the second has the strictly greater objective, whatever M is.
C8_FullBeatsPartial ==
    (Evaluated /\ Unscheduled(obj.a) = {} /\ Stranded(obj.b, obj.dur) # {}) =>
        WLess(obj.va, obj.vb)

\* v is the makespan of the starts: the maximum of start + duration, 0 if
\* no job ends after period 0
IsMakespan(v, starts, dur) ==
    /\ WLeq(W(0), v)
    /\ \A j \in DOMAIN dur : WLeq(WAdd(starts[j], dur[j]), v)
    /\ v = W(0) \/ \E j \in DOMAIN dur : v = WAdd(starts[j], dur[j])

\* C9: objective() is the makespan when every positive-duration job has a
\* start; otherwise it is 10^12 plus the number of unscheduled
\* positive-duration jobs (a zero-duration job without a start is not
\* counted), so of two partial states the one with fewer unscheduled
\* positive-duration jobs has the smaller objective.
C9_ObjectiveValue ==
    Evaluated =>
        /\ Stranded(obj.a, obj.dur) = {} => IsMakespan(obj.va, obj.a, obj.dur)
        /\ Stranded(obj.a, obj.dur) # {} =>
               obj.va = WAdd(Penalty, W(Cardinality(Stranded(obj.a, obj.dur))))
        /\ (/\ Stranded(obj.a, obj.dur) # {}
            /\ Cardinality(Stranded(obj.a, obj.dur)) < Cardinality(Stranded(obj.b, obj.dur)))
               => WLess(obj.va, obj.vb)

\* two evaluated partial states, the first missing a zero-duration job and
\* fewer positive-duration jobs than the second
C9_Witness ==
    /\ Evaluated
    /\ Stranded(obj.a, obj.dur) # {}
    /\ Unscheduled(obj.a) # Stranded(obj.a, obj.dur)
    /\ Cardinality(Stranded(obj.a, obj.dur)) < Cardinality(Stranded(obj.b, obj.dur))

\* C9 as claimed: the penalty case adds the count of all unscheduled jobs and
\* fewer unscheduled jobs mean a smaller objective.
C9_CountsEveryUnscheduled ==
    Evaluated =>
        /\ Stranded(obj.a, obj.dur) = {} => IsMakespan(obj.va, obj.a, obj.dur)
        /\ Stranded(obj.a, obj.dur) # {} =>
               obj.va = WAdd(Penalty, W(Cardinality(Unscheduled(obj.a))))
        /\ (/\ Stranded(obj.a, obj.dur) # {} /\ Stranded(obj.b, obj.dur) # {}
            /\ Cardinality(Unscheduled(obj.a)) < Cardinality(Unscheduled(obj.b)))
               => WLess(obj.va, obj.vb)

-----------------------------------------------------------------------------
(* Spec: solve_with_alns, src/src/solver.py. The loop is alns.iterate        *)
(* (solver.py:111-116): select a destroy and a repair operator, call         *)
(* destroy(curr, rng), call repair(destroyed, rng), let the acceptance       *)
(* criterion decide, keep the best. iterate is given no keyword arguments,   *)
(* so the operators are called with the state and the generator only.        *)
(* A run is followed by a second run with the same seed on the same data:    *)
(* run 1 draws the random decisions and records them, run 2 is handed the    *)
(* same stream.                                                              *)

DestroyOps == {"random_removal", "non_peak_removal"}

RepairOps == {"random_insert", "justify"}

\* the removed argument the loop passes to a repair operator: none
RemovedArg == <<>>

InitSearch ==
    /\ inst \in 1..Len(Instances)
    /\ data = Instances[inst]
    /\ pc = "init"
    /\ sg = NoCall /\ first = NoCall
    /\ curr = NoState /\ best = NoState /\ dest = NoState /\ cand = NoState
    /\ ops = NoOps /\ iters = 0 /\ run = 1 /\ trace = <<>> /\ res1 = NoState
    /\ summary = NoSummary
    /\ obj = NoObj
    /\ lrp = NoCall
    /\ evaluated = {}

\* the bug of a handler around the build that swallows the RuntimeError
AfterSwallow(state, next) == IF state.status = "hang" THEN "hang" ELSE next

\* where the run goes after a state was built: on, or out with the builder's
\* RuntimeError, or nowhere when the builder does not return
After(state, next) == IF state.status = "ok" THEN next ELSE state.status

\* solver.py:82: init_state = RcpspState(_topological_lrp_order(data), data)
Start ==
    /\ pc = "init"
    /\ LET x == RcpspState(TopologicalLrpOrder(data), data)
       IN  /\ curr' = x.state
           /\ best' = x.state
           /\ data' = WithCap(data, x.cap_tm)
           /\ pc' = After(x.state, "destroy")
           /\ evaluated' = IF x.state.status = "ok"
                            THEN {StateObjective(x.state, data)} ELSE {}
    /\ UNCHANGED <<inst, sg, first, dest, cand, ops, iters, run, trace, res1, summary, obj, lrp>>

\* the sample run 2 is handed where run 1 drew `removed`: the same, the state
\* being the same; some sample of the right size otherwise
Redraw(order, k, removed) ==
    IF removed \in Choices(order, k) THEN removed
    ELSE CHOOSE S \in Choices(order, k) : TRUE

\* operators.py:27-29: k = max(1, int(frac * n)), at most n
SampleSize(order) == Min2(RemovalCount(Len(order)), Len(order))

\* the samples rng_.choice can hand random_removal in this iteration: any in
\* run 1, the recorded one in run 2; non_peak_removal draws nothing
Samples(dop) ==
    IF dop # "random_removal" THEN {{}}
    ELSE IF run = 1 THEN Choices(curr.order, SampleSize(curr.order))
    ELSE {Redraw(curr.order, SampleSize(curr.order), trace[iters + 1].removed)}

\* one destroy call of the loop: destroyed = d_operator(curr, rng)
Destroy ==
    /\ pc = "destroy"
    /\ iters < MaxIters
    /\ \E dop \in DestroyOps : \E removed \in Samples(dop) :
           /\ run = 2 => dop = trace[iters + 1].d
           /\ LET x == IF dop = "random_removal"
                       THEN random_removal(curr, data, removed)
                       ELSE non_peak_removal(curr, data, Frac)
              IN  /\ dest' = x.state
                  /\ data' = WithCap(data, x.cap_tm)
                  /\ pc' = After(x.state, "repair")
           /\ ops' = [d |-> dop, r |-> "none"]
           /\ trace' = IF run = 1
                       THEN Append(trace, [d |-> dop, removed |-> removed,
                                           r |-> "none", coin |-> FALSE])
                       ELSE trace
    /\ UNCHANGED <<inst, sg, first, curr, best, cand, iters, run, res1, summary, obj, lrp, evaluated>>

\* one repair call of the loop: cand = r_operator(destroyed, rng)
Repair ==
    /\ pc = "repair"
    /\ \E rop \in RepairOps :
           /\ run = 2 => rop = trace[iters + 1].r
           /\ LET x == IF rop = "random_insert"
                       THEN random_insert(dest, data, RemovedArg, <<>>)
                       ELSE justify(dest, data)
              IN  /\ cand' = x.state
                  /\ data' = WithCap(data, x.cap_tm)
                  /\ pc' = After(x.state, "accept")
           /\ ops' = [ops EXCEPT !.r = rop]
           /\ trace' = IF run = 1
                       THEN [trace EXCEPT ![iters + 1].r = rop]
                       ELSE trace
    /\ UNCHANGED <<inst, sg, first, curr, best, dest, iters, run, res1, summary, obj, lrp, evaluated>>

\* the bug of a criterion that takes strict improvements only
AcceptsImproving(cand_obj, curr_obj, coin) == WLess(cand_obj, curr_obj)

\* solver.py:95-101 and 111-116: the simulated-annealing criterion accepts a
\* candidate that is not worse than curr, and a worse one when its draw
\* (coin) falls under the acceptance probability
Accepts(cand_obj, curr_obj, coin) == WLeq(cand_obj, curr_obj) \/ coin

\* the end of an iteration: accept or reject cand, record a new best
Accept ==
    /\ pc = "accept"
    /\ \E coin \in BOOLEAN :
           LET co == StateObjective(cand, data)
               cu == StateObjective(curr, data)
               be == StateObjective(best, data)
           IN  /\ WLeq(co, cu) => coin
               /\ run = 2 => coin = trace[iters + 1].coin
               /\ curr' = IF WLess(co, be) \/ Accepts(co, cu, coin) THEN cand ELSE curr
               /\ best' = IF WLess(co, be) THEN cand ELSE best
               /\ evaluated' = evaluated \cup {co}
               /\ trace' = IF run = 1
                           THEN [trace EXCEPT ![iters + 1].coin = coin]
                           ELSE trace
    /\ iters' = iters + 1
    /\ pc' = "destroy"
    /\ UNCHANGED <<inst, data, sg, first, dest, cand, ops, run, res1, summary, obj, lrp>>

\* solver.py:119-121: the makespan of the summary
MakespanOf(state, d) ==
    SetMax({state.starts[j] + d.durations[j] : j \in Jobs(d)} \cup {0}, 0)

\* solver.py:126-129: the usage matrix, summed over the jobs 1..n-2
SummaryUsage(state, d, makespan) ==
    LET counted == {j \in Jobs(d) : /\ 1 <= j /\ j <= NJobs(d) - 2
                                    /\ d.durations[j] > 0 /\ state.starts[j] >= 0}
        at(t)   == {j \in counted : state.starts[j] <= t
                                    /\ t < state.starts[j] + d.durations[j]}
    IN  [i \in 1..makespan |->
            [r \in 1..NRes(d) |-> SumOver([j \in Jobs(d) |-> d.needs[j][r]], at(i - 1))]]

\* solver.py:135-137: np.divide(used, caps, out=zeros, where=caps > 0), a
\* cell being the fraction <<used, cap>>, <<0, 1>> where the capacity is 0
Utilization(used, caps) ==
    [i \in 1..Len(used) |->
        [r \in 1..Len(used[i]) |->
            IF caps[i][r] > 0 THEN <<used[i][r], caps[i][r]>> ELSE <<0, 1>>]]

\* solver.py:138: the mean of the utilization over the cells of positive
\* capacity as a fraction, "nan" when there is no such cell
TotalUtilization(used, caps) ==
    LET cells == {c \in (1..Len(used)) \X (1..Len(caps[1])) : caps[c[1]][c[2]] > 0}
        L     == CapMultiple(caps)
        term  == [c \in cells |-> used[c[1]][c[2]] * (L \div caps[c[1]][c[2]])]
    IN  IF cells = {} THEN "nan" ELSE <<SumOver(term, cells), L * Cardinality(cells)>>

\* solver.py:118-152: the summary of the best state
Summary(state, d) ==
    LET makespan == MakespanOf(state, d)
        used     == SummaryUsage(state, d, makespan)
        caps     == SubSeq(d.cap_tm, 1, Min2(makespan, Len(d.cap_tm)))
    IN  [makespan          |-> makespan,
         order             |-> state.order,
         starts            |-> state.starts,
         usage             |-> used,
         capacities        |-> caps,
         utilization       |-> Utilization(used, caps),
         total_utilization |-> IF makespan = 0 THEN "nan" ELSE TotalUtilization(used, caps)]

\* solver.py:102 and 118-154: MaxIterations(iters) ends the loop, the summary
\* of the best state is returned
Finish ==
    /\ pc = "destroy"
    /\ iters = MaxIters
    /\ pc' = "done"
    /\ res1' = IF run = 1 THEN best ELSE res1
    /\ summary' = Summary(best, data)
    /\ UNCHANGED <<inst, data, sg, first, curr, best, dest, cand, ops, iters, run, trace, obj, lrp, evaluated>>

\* solve_with_alns(data, seed, iters) called again: same seed, same budget,
\* the data as the first run left it
Rerun ==
    /\ pc = "done"
    /\ run = 1
    /\ run' = 2
    /\ pc' = "init"
    /\ iters' = 0
    /\ curr' = NoState /\ best' = NoState /\ dest' = NoState /\ cand' = NoState
    /\ ops' = NoOps
    /\ evaluated' = {}
    /\ UNCHANGED <<inst, data, sg, first, trace, res1, summary, obj, lrp>>

Next == Start \/ Destroy \/ Repair \/ Accept \/ Finish \/ Rerun

Spec == InitSearch /\ [][Next]_vars

-----------------------------------------------------------------------------
(* Properties of the operators and of the search *)

FullyScheduled(state) == \A j \in DOMAIN state.starts : state.starts[j] >= 0

\* a is b with some elements left out: nothing new, nothing twice, the
\* survivors in the order b has them
IsSubsequence(a, b) ==
    /\ Range(a) \subseteq Range(b)
    /\ \A i, k \in 1..Len(a) : i < k =>
           /\ a[i] # a[k]
           /\ \E m, n \in 1..Len(b) : m < n /\ b[m] = a[i] /\ b[n] = a[k]

\* C3: random_removal applied to a full feasible state and random_insert
\* applied at once to its result, as the search loop calls them, give a
\* candidate whose order holds every job, with every job scheduled and an
\* objective below the infeasibility penalty.
C3_RemovalThenInsertIsFull ==
    (/\ pc = "accept"
     /\ ops.d = "random_removal" /\ ops.r = "random_insert"
     /\ IsFullOrder(curr.order, data) /\ FullyScheduled(curr)) =>
        /\ IsFullOrder(cand.order, data)
        /\ FullyScheduled(cand)
        /\ WLess(StateObjective(cand, data), Penalty)

\* C4: a repair step (random_insert or justify) applied to the state a
\* destroy step made of a full order yields an order that lists every job
\* exactly once.
C4_RepairYieldsPermutation ==
    (pc = "accept" /\ IsFullOrder(curr.order, data)) => IsFullOrder(cand.order, data)

\* C5: the order a destroy step (random_removal or non_peak_removal) yields
\* is a subsequence of the order it was given: no job that was absent, none
\* twice, the survivors in their former relative order.
C5_DestroySubsequence ==
    pc = "repair" => IsSubsequence(dest.order, curr.order)

\* a destroy step has taken a job out of the middle of an order that was not
\* in ascending id order
C5_Witness ==
    /\ pc = "repair"
    /\ Len(dest.order) + 1 = Len(curr.order)
    /\ \E i \in 2..(Len(curr.order) - 1) : curr.order[i] \notin Range(dest.order)
    /\ \E i \in 1..(Len(dest.order) - 1) : dest.order[i] > dest.order[i + 1]

\* C7: a second run with the same seed (the same random decisions) and the
\* same iteration budget on the same data, as the first run left it, ends
\* as the first did, with the same best order and the same makespan.
C7_SameSeedSameResult ==
    run = 2 =>
        /\ pc \notin {"error", "hang"}
        /\ pc = "done" =>
               /\ best.order = res1.order
               /\ MakespanOf(best, data) = MakespanOf(res1, data)

\* both runs have ended, the first one extended the capacity array and moved
\* its best state away from the initial one
C7_Witness ==
    /\ run = 2 /\ pc = "done"
    /\ Len(data.cap_tm) > Len(Instances[inst].cap_tm)
    /\ res1.order # TopologicalLrpOrder(data)

-----------------------------------------------------------------------------
(* SpecOps: a state is built from one order, one pass of the builder's loop  *)
(* per step, and one operator is then called on it with arguments its        *)
(* signature takes: a fraction and a sample for random_removal, a fraction   *)
(* for non_peak_removal, a list of removed jobs and insertion positions for  *)
(* random_insert, nothing for justify.                                       *)

\* jobs a caller hands random_insert in one list, at most
MaxRemoved == 1

\* operators.py:11 and 36: values of the frac parameter (0 < frac <= 1)
Fracs == {<<1, 5>>, <<1, 2>>, <<1, 1>>}

\* state.py:24-26: the state whose schedule the builder call sg has produced
StateOf(s) ==
    [status |-> s.status, order |-> s.order, starts |-> s.start_times, used |-> s.used]

\* state.py:26: schedule_order has returned inside RcpspState(order, data), or
\* has raised: the constructor has no handler and no state is made
Built ==
    /\ pc = "sgs"
    /\ sg.status \in {"ok", "error"}
    /\ curr = NoState
    /\ curr' = IF sg.status = "ok" THEN StateOf(sg) ELSE curr
    /\ pc' = After(sg, "op")
    /\ UNCHANGED <<inst, data, sg, first, best, dest, cand, ops, iters, run, trace, res1, summary, obj, lrp, evaluated>>

\* operators.py:27-29 for any fraction
SampleSizeOf(frac, order) == Min2(RemovalCountOf(frac, Len(order)), Len(order))

\* operators.py:22-32: destroy(state, rng_) of random_removal(rng, frac)
CallRandomRemoval ==
    /\ pc = "op"
    /\ \E frac \in Fracs : \E removed \in Choices(curr.order, SampleSizeOf(frac, curr.order)) :
           LET x == random_removal(curr, data, removed)
           IN  /\ dest' = x.state
               /\ data' = WithCap(data, x.cap_tm)
               /\ pc' = After(x.state, "ret")
               /\ ops' = [op |-> "random_removal", frac |-> frac, removed |-> removed]
    /\ UNCHANGED <<inst, sg, first, curr, best, cand, iters, run, trace, res1, summary, obj, lrp, evaluated>>

\* operators.py:47-72: destroy(state, rng_) of non_peak_removal(rng, frac)
CallNonPeakRemoval ==
    /\ pc = "op"
    /\ \E frac \in Fracs :
           LET x == non_peak_removal(curr, data, frac)
           IN  /\ dest' = x.state
               /\ data' = WithCap(data, x.cap_tm)
               /\ pc' = After(x.state, "ret")
               /\ ops' = [op |-> "non_peak_removal", frac |-> frac]
    /\ UNCHANGED <<inst, sg, first, curr, best, cand, iters, run, trace, res1, summary, obj, lrp, evaluated>>

\* the lists of removed jobs a caller can hand a repair operator: jobs that
\* are not in the order, none twice
RemovedLists(order, d) ==
    UNION {Perms(S) : S \in {X \in SUBSET (Jobs(d) \ Range(order)) : Cardinality(X) <= MaxRemoved}}

\* operators.py:91: the positions rng.randrange(len(order) + 1) can draw, one
\* for each insertion into an order of n jobs that grows by one each time
PositionLists(n, m) == {ps \in [1..m -> 0..(n + m - 1)] : \A i \in 1..m : ps[i] <= n + i - 1}

\* operators.py:86-93: repair(state, rng_, removed) of random_insert(rng)
CallRandomInsert ==
    /\ pc = "op"
    /\ \E removed \in RemovedLists(curr.order, data) :
       \E positions \in PositionLists(Len(curr.order), Len(removed)) :
           LET x == random_insert(curr, data, removed, positions)
           IN  /\ cand' = x.state
               /\ data' = WithCap(data, x.cap_tm)
               /\ pc' = After(x.state, "ret")
               /\ ops' = [op |-> "random_insert", removed |-> removed, positions |-> positions]
    /\ UNCHANGED <<inst, sg, first, curr, best, dest, iters, run, trace, res1, summary, obj, lrp, evaluated>>

\* operators.py:115-119: repair(state, rng_, **_) of justify_repair(rng); a
\* removed list, given or not, goes into **_ and is not read
CallJustify ==
    /\ pc = "op"
    /\ \E removed \in RemovedLists(curr.order, data) :
           LET x == justify(curr, data)
           IN  /\ cand' = x.state
               /\ data' = WithCap(data, x.cap_tm)
               /\ pc' = After(x.state, "ret")
               /\ ops' = [op |-> "justify", removed |-> removed]
    /\ UNCHANGED <<inst, sg, first, curr, best, dest, iters, run, trace, res1, summary, obj, lrp, evaluated>>

NextOps ==
    SgsStep \/ Built \/ CallRandomRemoval \/ CallNonPeakRemoval \/ CallRandomInsert \/ CallJustify

SpecOps == InitSGS /\ [][NextOps]_vars

-----------------------------------------------------------------------------
(* Properties of the builder inside a constructor or an operator call *)

\* sgs.py:41-47 left with idx = None: jobs remain and each of them has a
\* present predecessor that is not scheduled
NoEligible(d, s) ==
    /\ s.remaining # <<>>
    /\ \A i \in 1..Len(s.remaining) :
           \E p \in Range(d.predecessors[s.remaining[i]]) :
               p \in s.present /\ ~s.scheduled[p]

\* a build has ended in the builder's error
BuildFailed ==
    \/ (pc # "sgs" /\ sg.status = "error")
    \/ dest.status = "error"
    \/ cand.status = "error"

\* C11: whenever jobs remain and none of them has all its present
\* predecessors scheduled, schedule_order aborts with an error and places
\* nothing more; the error leaves the constructor and the operator call it
\* happened in: no state is returned, the run is in its error state and takes
\* no further step.
C11_FatalEligibility ==
    /\ [][(pc = "sgs" /\ sg.status = "run" /\ NoEligible(data, sg)) =>
              /\ sg'.status = "error"
              /\ sg'.start_times = sg.start_times
              /\ sg'.remaining = sg.remaining]_vars
    /\ [][(pc = "sgs" /\ sg.status = "error") => (pc' = "error" /\ curr' = NoState)]_vars
    /\ [](BuildFailed => pc = "error")
    /\ [][pc # "error"]_vars

\* random_insert was called on a built state with a job to insert, and the
\* build of the new order ended in the builder's error
C11_Witness ==
    /\ pc = "error"
    /\ curr.status = "ok"
    /\ ops.op = "random_insert"
    /\ cand.status = "error"
    /\ \E j \in Range(cand.order) : cand.starts[j] >= 0

\* a job of the order asks, for some resource, for more than any row of the
\* known horizon offers, the last row included
ScenarioB(order, d) ==
    \E j \in Range(order) : \E r \in 1..NRes(d) :
        /\ d.durations[j] > 0
        /\ \A t \in 1..Len(d.cap_tm) : d.needs[j][r] > d.cap_tm[t][r]

\* C12: when a job's demand for some resource exceeds that resource's
\* capacity in every row of the known horizon, schedule_order still ends: it
\* does not scan forward and extend the horizon without end.
C12_ScenarioBBounded ==
    (pc = "sgs" /\ ScenarioB(sg.order, Instances[inst])) => sg.status # "hang"

\* the periods job j occupies in a schedule
Window(d, starts, j) == starts[j]..(starts[j] + d.durations[j] - 1)

\* C13: on the serial instance (source, A of 2 periods, B of 3, C of 1, each
\* needing the one unit of the only resource, sink) schedule_order returns for
\* every order of the five jobs a schedule in which no two of A, B, C share
\* a period and whose makespan is 6.
C13_ScenarioA ==
    (pc = "sgs" /\ Instances[inst] = InstSerial /\ IsFullOrder(sg.order, data)
     /\ sg.status # "run") =>
        /\ sg.status = "ok"
        /\ \A a, b \in {1, 2, 3} :
               a # b => Window(data, sg.start_times, a) \cap Window(data, sg.start_times, b) = {}
        /\ sg.makespan = 6
        /\ SetMax({sg.start_times[j] + data.durations[j] : j \in Jobs(data)}, 0) = 6

\* the serial instance scheduled from an order that lists the sink first and
\* the longest job last
C13_Witness ==
    /\ Returned /\ Instances[inst] = InstSerial /\ IsFullOrder(sg.order, data)
    /\ sg.order[1] = 4
    /\ sg.order[5] = 2
    /\ sg.start_times[2] = 3
    /\ sg.makespan = 6

-----------------------------------------------------------------------------
(* Properties of single operator calls *)

\* an operator call has ended, one way or another
Called(op) == pc \in {"ret", "error", "hang"} /\ "op" \in DOMAIN ops /\ ops.op = op

\* the call returned, and returned a state equal to the one it was given,
\* leaving the shared capacity array as it was
Unchanged(result) ==
    /\ pc = "ret"
    /\ result.order = curr.order
    /\ result.starts = curr.starts
    /\ result.used = curr.used
    /\ Len(data.cap_tm) = Len(sg.cap_tm)

\* C14: a destroy operator called on a state with an empty order returns that
\* state unchanged; random_insert called with no removed jobs returns its
\* input state unchanged; justify, which reads no removed jobs, returns a
\* state equal to its input when the order is empty. None of them raises.
C14_NoOps ==
    /\ (Called("random_removal") /\ curr.order = <<>>) => Unchanged(dest)
    /\ (Called("non_peak_removal") /\ curr.order = <<>>) => Unchanged(dest)
    /\ (Called("random_insert") /\ ops.removed = <<>>) => Unchanged(cand)
    /\ (Called("justify") /\ curr.order = <<>>) => Unchanged(cand)

\* random_insert was called with nothing to insert on a state of several
\* jobs, two of them overlapping in time
C14_Witness ==
    /\ Called("random_insert") /\ ops.removed = <<>>
    /\ Len(curr.order) >= 3
    /\ \E t \in 0..MaxT : Cardinality(Occupying(data, curr.order, curr.starts, t)) >= 2
    /\ cand = curr

\* C14 as claimed: every repair operator, justify included, returns its input
\* state unchanged when the removed set is empty.
C14_NoOpsAllRepairs ==
    /\ (Called("random_removal") /\ curr.order = <<>>) => Unchanged(dest)
    /\ (Called("non_peak_removal") /\ curr.order = <<>>) => Unchanged(dest)
    /\ (Called("random_insert") /\ ops.removed = <<>>) => Unchanged(cand)
    /\ (Called("justify") /\ ops.removed = <<>>) => Unchanged(cand)

-----------------------------------------------------------------------------
(* Properties of the result summary *)

\* C15: in the summary of a finished run the usage and the capacity matrix
\* have exactly makespan rows each; every usage cell is the summed demand of
\* the jobs of the best schedule that occupy the period, which makes the
\* matrix the usage matrix the builder gave the best state; the utilization
\* is 0 in every cell of capacity 0.
C15_SummaryMatrices ==
    pc = "done" =>
        /\ Len(summary.usage) = summary.makespan
        /\ Len(summary.capacities) = summary.makespan
        /\ \A t \in 0..(summary.makespan - 1) : \A r \in 1..NRes(data) :
               /\ summary.usage[t + 1][r]
                      = SumNeeds(data, Occupying(data, best.order, best.starts, t), r)
               /\ summary.capacities[t + 1][r] = 0 => summary.utilization[t + 1][r] = <<0, 1>>
        /\ summary.usage = best.used

-----------------------------------------------------------------------------
(* Properties of the builder's placements *)

\* usage of period t in a usage matrix, 0 past its last row
UsedAt(used, t, r) == IF t + 1 <= Len(used) THEN used[t + 1][r] ELSE 0

\* job j fits at start u on top of the usage booked so far
Fits(d, used, j, u) ==
    \A tau \in u..(u + d.durations[j] - 1) : \A r \in 1..NRes(d) :
        UsedAt(used, tau, r) + d.needs[j][r] <= CapAt(tau, r)

\* the largest finish time among the predecessors of j present in the order,
\* 0 if there is none
PredFinish(d, s, j) ==
    SetMax({s.finish_times[p] : p \in Range(d.predecessors[j]) \cap s.present}, 0)

\* C16: the job a step of schedule_order places gets est = the largest finish
\* time of its present predecessors (0 if none); with zero duration it starts
\* at est, no resource looked at, usage and capacity array left as they are;
\* with positive duration it starts at the least t >= est at which its demand
\* fits every period of [t, t + duration) for every resource, and its demand
\* is booked there; no job placed before is moved.
C16_EarliestStart ==
    [][(pc = "sgs" /\ sg.status = "run" /\ sg'.status = "run"
        /\ Len(sg'.remaining) < Len(sg.remaining)) =>
          \E j \in Range(sg.remaining) :
              LET est == PredFinish(data, sg, j)
                  dur == data.durations[j]
                  t   == sg'.start_times[j]
              IN  /\ ~sg.scheduled[j] /\ sg'.scheduled[j]
                  /\ sg'.finish_times[j] = t + dur
                  /\ \A i \in Jobs(data) \ {j} :
                         /\ sg'.start_times[i] = sg.start_times[i]
                         /\ sg'.finish_times[i] = sg.finish_times[i]
                  /\ dur = 0 => (t = est /\ sg'.used = sg.used /\ sg'.cap_tm = sg.cap_tm)
                  /\ dur > 0 =>
                         /\ t >= est
                         /\ Fits(data, sg.used, j, t)
                         /\ \A u \in est..(t - 1) : ~Fits(data, sg.used, j, u)
                         /\ \A tau \in 0..(Len(sg'.used) - 1) : \A r \in 1..NRes(data) :
                                UsedAt(sg'.used, tau, r)
                                    = UsedAt(sg.used, tau, r)
                                      + (IF t <= tau /\ tau < t + dur
                                         THEN data.needs[j][r] ELSE 0)]_vars

\* a call in which a positive-duration job had to start more than one period
\* after its earliest start, and a zero-duration job was placed at a period
\* that cannot meet its demand
C16_Witness ==
    /\ pc = "sgs" /\ sg.status = "run"
    /\ \E j \in Jobs(data) :
           /\ sg.scheduled[j] /\ data.durations[j] > 0
           /\ sg.start_times[j] > PredFinish(data, sg, j) + 1
    /\ \E z \in Jobs(data) :
           /\ sg.scheduled[z] /\ data.durations[z] = 0 /\ sg.start_times[z] > 0
           /\ \E r \in 1..NRes(data) :
                  UsedAt(sg.used, sg.start_times[z], r) + data.needs[z][r]
                      > CapAt(sg.start_times[z], r)

-----------------------------------------------------------------------------
(* Properties of the schedules that states carry *)

\* the largest finish time over the jobs that have a start, 0 if none has
MaxFinish(d, starts) ==
    SetMax({starts[j] + d.durations[j] : j \in {i \in Jobs(d) : starts[i] >= 0}}, 0)

\* the usage matrix of a state has as many rows as its makespan and holds, in
\* each cell, the summed demand of the positive-duration jobs of the order
\* that occupy the period
UsageConsistent(d, state) ==
    /\ Len(state.used) = MaxFinish(d, state.starts)
    /\ \A t \in 0..(Len(state.used) - 1) : \A r \in 1..NRes(d) :
           state.used[t + 1][r] = SumNeeds(d, Occupying(d, state.order, state.starts, t), r)

\* C17: when schedule_order returns, its makespan is the largest finish time
\* over the scheduled jobs (0 if there is none), the usage matrix it returns
\* has exactly makespan rows, also when the capacity array has more, and each
\* cell is the summed demand of the positive-duration jobs of the order whose
\* window holds the period. The same is true of every state built from such a
\* return.
C17_MakespanUsage ==
    /\ (pc = "sgs" /\ sg.status = "ok") =>
           /\ sg.makespan = MaxFinish(data, sg.start_times)
           /\ \A j \in Jobs(data) : sg.scheduled[j] <=> sg.start_times[j] >= 0
           /\ UsageConsistent(data, StateOf(sg))
    /\ \A state \in {curr, dest, cand} :
           state.status = "ok" => UsageConsistent(data, state)

\* an operator has returned a state whose usage matrix is shorter than the
\* capacity array, which an earlier build had to extend past the known
\* horizon, and in which two jobs overlap
C17_Witness ==
    /\ pc = "ret"
    /\ \E state \in {dest, cand} :
           /\ state.status = "ok"
           /\ Len(data.cap_tm) > Len(Instances[inst].cap_tm)
           /\ Len(state.used) < Len(data.cap_tm)
           /\ Len(state.used) > 0
           /\ \E t \in 0..(Len(state.used) - 1) :
                  Cardinality(Occupying(data, state.order, state.starts, t)) >= 2

-----------------------------------------------------------------------------
(* Properties of the builder on partial orders *)

\* the topological orders of each instance
TopoOrders ==
    [i \in 1..Len(Instances) |->
        {f \in Perms(Jobs(Instances[i])) : IsTopological(f, Instances[i])}]

\* the order is what a topological order of the instance becomes when jobs
\* are taken out of it
SubTopological(order) == \E f \in TopoOrders[inst] : IsSubsequence(order, f)

\* the instance without the precedence edges that have an end outside S
WithoutEdgesOutside(d, S) ==
    LET preds == [j \in Jobs(d) |->
                     IF j \in S THEN SelectSeq(d.predecessors[j], LAMBDA p : p \in S)
                     ELSE <<>>]
    IN  [d EXCEPT !.predecessors = preds]

\* C18: for an order that is a subsequence of a topological order
\* schedule_order does not fail for want of an eligible job, and when it
\* returns, every job of the order has a start >= 0, every other job has
\* start -1, every edge p -> s with both ends in the order has start[s] >=
\* start[p] + duration[p], and the edges with an end outside the order count
\* for nothing: the schedule is the one of the instance without them.
C18_PartialOrders ==
    (pc = "sgs" /\ sg.status # "run" /\ SubTopological(sg.order)) =>
        /\ sg.status # "error"
        /\ sg.status = "ok" =>
               /\ \A j \in Range(sg.order) : sg.start_times[j] >= 0
               /\ \A j \in Jobs(data) \ Range(sg.order) : sg.start_times[j] = -1
               /\ \A s \in Range(sg.order) :
                      \A p \in Range(data.predecessors[s]) \cap Range(sg.order) :
                          sg.start_times[s] >= sg.start_times[p] + data.durations[p]
               /\ sg.start_times
                      = schedule_order(sg.order,
                            WithoutEdgesOutside(Instances[inst], Range(sg.order))).start_times

\* a returned schedule of a partial order in which a job starts before a
\* job two edges up the precedence graph has finished, the job between them
\* being out of the order
C18_Witness ==
    /\ Returned /\ SubTopological(sg.order)
    /\ \E s \in Range(sg.order) :
           \E p \in Range(data.predecessors[s]) \ Range(sg.order) :
               \E q \in Range(data.predecessors[p]) \cap Range(sg.order) :
                   /\ data.durations[q] > 0
                   /\ data.durations[s] > 0
                   /\ sg.start_times[s] < sg.start_times[q] + data.durations[q]

-----------------------------------------------------------------------------
(* Properties of the destroy operators' removals *)

\* round(frac * n) for frac = frac[1] / frac[2], a half going to the even
\* neighbour
Round(frac, n) ==
    LET q == (frac[1] * n) \div frac[2]
        m == 2 * ((frac[1] * n) % frac[2])
    IN  IF m < frac[2] THEN q
        ELSE IF m > frac[2] THEN q + 1
        ELSE IF q % 2 = 0 THEN q ELSE q + 1

\* min(n, max(1, round(frac * n)))
RoundedCount(frac, n) == Min2(n, Max2(1, Round(frac, n)))

\* the jobs a destroy call took out of the order it was given
Removed == Range(curr.order) \ Range(dest.order)

\* C19: random_removal with fraction f, called on an order of n >= 1 jobs,
\* removes exactly min(n, max(1, round(f * n))) distinct jobs of the order.
C19_RemovesRounded ==
    (Called("random_removal") /\ pc = "ret" /\ Len(curr.order) >= 1) =>
        /\ Cardinality(Removed) = RoundedCount(ops.frac, Len(curr.order))
        /\ Len(dest.order) = Len(curr.order) - RoundedCount(ops.frac, Len(curr.order))

\* the utilization score of job j in the schedule of the state given
ScoreIn(state, j) == Score(data, state.starts, state.used, j)

\* C20: non_peak_removal with fraction f, called on a state whose order has
\* n >= 1 jobs, removes exactly min(n, max(1, round(f * n))) jobs of the
\* order; no job it keeps has a strictly lower utilization score than a job
\* it removes; jobs of zero duration or without a start have score 0.
C20_NonPeakRemoval ==
    (Called("non_peak_removal") /\ pc = "ret" /\ Len(curr.order) >= 1) =>
        /\ Cardinality(Removed) = RoundedCount(ops.frac, Len(curr.order))
        /\ Len(dest.order) = Len(curr.order) - RoundedCount(ops.frac, Len(curr.order))
        /\ \A kept \in Range(dest.order) : \A gone \in Removed :
               ~FracLess(ScoreIn(curr, kept), ScoreIn(curr, gone))
        /\ \A j \in Jobs(data) :
               (data.durations[j] = 0 \/ curr.starts[j] < 0) => ScoreIn(curr, j)[1] = 0

-----------------------------------------------------------------------------
(* Properties of justify *)

\* (finish, start) of job a is at least (finish, start) of job b in the
\* schedule of the state, compared lexicographically
KeyAtLeast(d, state, a, b) ==
    LET fa == state.starts[a] + d.durations[a]
        fb == state.starts[b] + d.durations[b]
    IN  fa > fb \/ (fa = fb /\ state.starts[a] >= state.starts[b])

\* C21: the order justify returns is a permutation of the order of the state
\* it was given, and any two consecutive jobs a, b of it have (finish[a],
\* start[a]) >= (finish[b], start[b]) in the schedule rebuilt from the input
\* order.
C21_JustifySorted ==
    (Called("justify") /\ pc = "ret") =>
        /\ Len(cand.order) = Len(curr.order)
        /\ Range(cand.order) = Range(curr.order)
        /\ \A i \in 1..(Len(cand.order) - 1) :
               KeyAtLeast(data, curr, cand.order[i], cand.order[i + 1])

-----------------------------------------------------------------------------
(* SpecLrp: _topological_lrp_order called on a problem whose precedence      *)
(* graph is any acyclic graph over a few jobs, with any small durations      *)

\* jobs of the problems the initial order is computed for
LrpJobs == 3

\* largest duration of a job of these problems
LrpMaxDur == 2

\* no set of jobs in which every job has a predecessor within the set
Acyclic(preds) ==
    \A S \in (SUBSET DOMAIN preds) \ {{}} : \E j \in S : preds[j] \cap S = {}

\* data.py:110-123: the problem of the predecessor sets and durations given,
\* each predecessor list in ascending order; one resource that no job needs
LrpProblem(preds, dur) ==
    LET ids == 0..(LrpJobs - 1)
        pl  == [j \in ids |-> Ascending(preds[j])]
    IN  [durations    |-> dur,
         predecessors |-> pl,
         successors   |-> [p \in ids |-> Ascending({i \in ids : p \in preds[i]})],
         needs        |-> [j \in ids |-> <<0>>],
         cap_tm       |-> <<<<1>>>>]

InitLrp ==
    /\ inst = 0 /\ pc = "lrp" /\ sg = NoCall /\ first = NoCall
    /\ curr = NoState /\ best = NoState /\ dest = NoState /\ cand = NoState
    /\ ops = NoOps /\ iters = 0 /\ run = 0 /\ trace = <<>> /\ res1 = NoState
    /\ summary = NoSummary /\ obj = NoObj
    /\ \E preds \in {p \in [0..(LrpJobs - 1) -> SUBSET (0..(LrpJobs - 1))] : Acyclic(p)} :
       \E dur \in [0..(LrpJobs - 1) -> 0..LrpMaxDur] :
           data = LrpProblem(preds, dur)
    /\ lrp = [status |-> "call"]
    /\ evaluated = {}

\* solver.py:15-53: the call returns its order
LrpReturn ==
    /\ pc = "lrp"
    /\ lrp.status = "call"
    /\ lrp' = [status |-> "ok", order |-> TopologicalLrpOrder(data)]
    /\ UNCHANGED <<inst, data, pc, sg, first, searchVars, obj, evaluated>>

NextLrp == LrpReturn

SpecLrp == InitLrp /\ [][NextLrp]_vars

RECURSIVE LongestPath(_, _)
\* the largest sum of durations along a path of precedence edges from job j
\* to a job without successors, both ends counted
LongestPath(d, j) ==
    d.durations[j]
        + SetMax({LongestPath(d, v) : v \in {i \in Jobs(d) : j \in Range(d.predecessors[i])}}, 0)

\* the jobs that can be emitted after those of the list so far: not in the
\* list, all predecessors in it
EligibleAfter(d, emitted) ==
    {j \in Jobs(d) \ emitted : Range(d.predecessors[j]) \subseteq emitted}

\* C22: for an acyclic precedence graph _topological_lrp_order returns every
\* job exactly once, each after all its predecessors, and each emitted job
\* has the largest tail among the jobs eligible at that moment, the smallest
\* id among those of that tail; a job's tail is the longest duration-weighted
\* path from it to a job without successors.
C22_InitialOrder ==
    (pc = "lrp" /\ lrp.status = "ok") =>
        /\ IsTopological(lrp.order, data)
        /\ \A i \in 1..Len(lrp.order) :
               LET j    == lrp.order[i]
                   elig == EligibleAfter(data, {lrp.order[k] : k \in 1..(i - 1)})
               IN  /\ j \in elig
                   /\ \A y \in elig :
                          \/ LongestPath(data, j) > LongestPath(data, y)
                          \/ (LongestPath(data, j) = LongestPath(data, y) /\ j <= y)

\* an order was returned in which a job went before a job of smaller id for
\* its longer tail, and two jobs of equal tail were eligible together
C22_Witness ==
    /\ pc = "lrp" /\ lrp.status = "ok"
    /\ \E i \in 1..(Len(lrp.order) - 1) :
           LET elig == EligibleAfter(data, {lrp.order[k] : k \in 1..(i - 1)})
           IN  \E y \in elig :
                   /\ y < lrp.order[i]
                   /\ LongestPath(data, y) < LongestPath(data, lrp.order[i])
    /\ \E i \in 1..(Len(lrp.order) - 1) :
           LET elig == EligibleAfter(data, {lrp.order[k] : k \in 1..(i - 1)})
           IN  \E y \in elig :
                   /\ y # lrp.order[i]
                   /\ LongestPath(data, y) = LongestPath(data, lrp.order[i])
                   /\ data.predecessors[y] # <<>>

-----------------------------------------------------------------------------
(* Acceptance and best tracking in the search loop *)

\* the search holds a current and a best state
Searching == pc \in {"destroy", "repair", "accept", "done"}

-----------------------------------------------------------------------------
(* The builder on acyclic precedence graphs *)

\* the precedence graph of the problem has no cycle
AcyclicData(d) == Acyclic([j \in Jobs(d) |-> Range(d.predecessors[j])])

\* C24: for an acyclic precedence graph schedule_order never raises its
\* no-eligible-job error, whatever sequence of distinct job ids it is given,
\* partial or full, topological or not: whenever jobs remain, at least one
\* of them has all of its present predecessors already scheduled.
C24_AcyclicNeverRaises ==
    (pc = "sgs" /\ AcyclicData(data)) =>
        /\ sg.status # "error"
        /\ (sg.status = "run" /\ sg.remaining # <<>>) =>
               /\ ~NoEligible(data, sg)
               /\ ScanEligible(data, sg.remaining, sg.present, sg.scheduled, 1) # 0

\* a call on an acyclic graph in which the first of the remaining jobs waits
\* for a present predecessor, and the call has gone on to return
C24_Witness ==
    /\ Returned /\ AcyclicData(data)
    /\ \E i \in 1..Len(sg.order) :
           \E p \in Range(data.predecessors[sg.order[i]]) :
               \E k \in (i + 1)..Len(sg.order) :
                   /\ sg.order[k] = p
                   /\ data.durations[p] > 0
    /\ Len(sg.order) < NJobs(data)

\* no job asks for more of a resource than a period of the known horizon
\* offers; the rows added on extension repeat the last of these
DemandFits(d) ==
    \A j \in Jobs(d) : \A r \in 1..NRes(d) : \A t \in 1..Len(d.cap_tm) :
        d.needs[j][r] <= d.cap_tm[t][r]

\* the sum of the durations of the jobs of S
TotalDuration(d, S) == SumOver(d.durations, S)

\* C25: when every job's demand is at most the capacity of every resource in
\* every period of the known horizon, schedule_order ends for every order,
\* and the makespan it returns is at most the sum of the durations of the
\* jobs in the order; at every pass the latest finish time is at most the sum
\* of the durations of the jobs placed so far.
C25_TerminatesWithinTotal ==
    (pc = "sgs" /\ DemandFits(Instances[inst])) =>
        /\ sg.status # "hang"
        /\ SetMax({sg.finish_times[j] : j \in Jobs(data)} \cup {0}, 0)
               <= TotalDuration(data, {j \in Range(sg.order) : sg.scheduled[j]})
        /\ sg.status = "ok" => sg.makespan <= TotalDuration(data, Range(sg.order))

\* a call returned whose jobs ran one after the other past the known horizon
\* under a capacity that varies: the capacity array was extended and the
\* makespan is the whole sum
C25_Witness ==
    /\ Returned /\ DemandFits(Instances[inst])
    /\ Len(sg.cap_tm) > Len(Instances[inst].cap_tm)
    /\ \E t \in 1..Len(sg.cap_tm) : sg.cap_tm[t] # sg.cap_tm[1]
    /\ Cardinality({j \in Range(sg.order) : data.durations[j] > 0}) >= 2
    /\ sg.makespan = TotalDuration(data, Range(sg.order))

-----------------------------------------------------------------------------
(* The state the search returns *)

\* C26: the best state a search returns, after any number of iterations with
\* any operator pairs and acceptance outcomes, has an order holding every job
\* exactly once and a start time >= 0 for every job, so the summary's order
\* and start times cover the full job set.
C26_ReturnedBestIsFull ==
    pc = "done" =>
        /\ IsFullOrder(best.order, data)
        /\ FullyScheduled(best)
        /\ Range(summary.order) = Jobs(data)
        /\ \A j \in Jobs(data) : summary.starts[j] >= 0

=============================================================================
